---- MODULE Spec2Model ----
(***************************************************************************)
(* createphenotypes: case/control phenotype matrix and ancestry-stratified *)
(* counts derived from an OMOP-style SQLite store and a JSONL file of      *)
(* phenotype definitions (src/src/aou_pheno_cc/cli/createphenotypes.py).   *)
(***************************************************************************)
EXTENDS Integers, Sequences, FiniteSets, TLC

VARIABLES
    store,          \* the SQLite store: demographics, events, closures, icd2omop
    jsonl,          \* the JSONL input: a sequence of JSON objects (key -> value)
    pc,             \* position of main()
    phenos,         \* main: phenos, the parsed PhenotypeDef list
    con,            \* the sqlite3 connection: "none", "open", "closed"
    base_universe,  \* main: base_universe
    df,             \* main: df, the person x phenotype matrix
    ancestry_df,    \* main: ancestry_df, person_id -> ancestry label
    counts_rows,    \* main: counts_rows
    idx,            \* number of definitions the for-loop has completed
    results,        \* per completed iteration: the loop's universe, cases and
                    \* controls, and the index of its first row in counts_rows
    matrix_file,    \* the file df.to_csv writes (NULL until written)
    counts_file,    \* the file counts_df.to_csv writes (NULL until written)
    sheet,          \* xls2json: df, the sheet read_excel returns
    xpc,            \* position of xls2json's main()
    row_i,          \* xls2json: number of rows df.iterrows() has passed
    handle          \* xls2json: the records written to the output file
                    \* (NULL until the file is opened)

\* the variables of createphenotypes and those of xls2json
cvars == <<store, jsonl, pc, phenos, con, base_universe, df, ancestry_df,
           counts_rows, idx, results, matrix_file, counts_file>>
xvars == <<sheet, xpc, row_i, handle>>

vars == <<cvars, xvars>>

-----------------------------------------------------------------------------
(* Bounds of the model *)

\* persons 1..NVaried carry individually varied demographics and events
NVaried == 16
\* persons NVaried+1..NVaried+NBulk share one demographic profile
NBulk == 19
\* longest sequence of definitions drawn from the template definitions
MaxPhenos == 2

-----------------------------------------------------------------------------
(* Values *)

\* SQL NULL / Python None / pandas NA, NaN, NaT; a present value v is <<v>>
NULL == <<>>
Some(v) == <<v>>
IsNull(x) == x = NULL
Val(x) == x[1]

Min(S) == CHOOSE x \in S : \A y \in S : x <= y

\* sorted(): the ascending sequence of a finite set of integers
RECURSIVE SortedSeq(_)
SortedSeq(S) ==
    IF S = {} THEN <<>>
    ELSE LET m == Min(S) IN <<m>> \o SortedSeq(S \ {m})

Range(s) == {s[i] : i \in DOMAIN s}

\* ancestry labels in ascending string order, as sorted() orders them
LabelOrder == <<"AFR", "EUR", "NA">>
LabelRank(a) == CHOOSE i \in DOMAIN LabelOrder : LabelOrder[i] = a

RECURSIVE SortedLabels(_)
SortedLabels(S) ==
    IF S = {} THEN <<>>
    ELSE LET m == CHOOSE x \in S : \A y \in S : LabelRank(x) <= LabelRank(y)
         IN <<m>> \o SortedLabels(S \ {m})

-----------------------------------------------------------------------------
(* The store: inputs of the run *)

\* event days relative to the date of birth at day 0; an age is days / 365.25
Day == [age20 |-> 7305, below30 |-> 10957, age30 |-> 10958,
        age40 |-> 14610, above40 |-> 14611, before_birth |-> -1]

\* rows of the demographics table, one per kind of person
ProfileSeq == <<
    [sex_at_birth |-> "Male",   has_srwgs |-> 1, has_ehr_data |-> 1,
     ancestry_pred |-> Some("EUR"), dob |-> Some(0)],
    [sex_at_birth |-> "Male",   has_srwgs |-> 0, has_ehr_data |-> 1,
     ancestry_pred |-> Some("EUR"), dob |-> Some(0)],
    [sex_at_birth |-> "Female", has_srwgs |-> 1, has_ehr_data |-> 1,
     ancestry_pred |-> Some("AFR"), dob |-> Some(0)],
    [sex_at_birth |-> "Male",   has_srwgs |-> 1, has_ehr_data |-> 1,
     ancestry_pred |-> NULL,        dob |-> Some(0)],
    [sex_at_birth |-> "Female", has_srwgs |-> 1, has_ehr_data |-> 1,
     ancestry_pred |-> Some("EUR"), dob |-> NULL],
    [sex_at_birth |-> "Female", has_srwgs |-> 1, has_ehr_data |-> 0,
     ancestry_pred |-> Some("AFR"), dob |-> Some(0)],
    [sex_at_birth |-> "Other",  has_srwgs |-> 1, has_ehr_data |-> 1,
     ancestry_pred |-> Some("AFR"), dob |-> Some(0)] >>

Ev(c, d) == [concept_id |-> c, date |-> d]

\* condition events of one person
CondPatterns == <<
    {},
    {Ev(1, Some(Day.age30))},
    {Ev(1, Some(Day.age20))},
    {Ev(3, Some(Day.age40))},
    {Ev(1, Some(Day.above40))},
    {Ev(2, Some(Day.age30))},
    {Ev(1, Some(Day.age30)), Ev(2, Some(Day.age20))},
    {Ev(4, Some(Day.age30))},
    {Ev(1, NULL)},
    {Ev(1, Some(Day.age20)), Ev(1, Some(Day.age30))},
    {Ev(1, Some(Day.below30))},
    {Ev(3, Some(Day.before_birth))},
    {Ev(1, Some(Day.age30)), Ev(4, Some(Day.age30))} >>

\* procedure events of one person
ProcPatterns == <<
    {},
    {Ev(1, Some(Day.age30))},
    {Ev(2, Some(Day.age30))},
    {Ev(1, Some(Day.age20))} >>

\* the closure tables: (ancestor_concept_id, descendant_concept_id) rows
CondClosures == << {<<3, 1>>}, {<<3, 1>>, <<3, 3>>, <<1, 1>>, <<2, 4>>} >>
ProcClosures == << {}, {<<2, 1>>} >>

Persons == 1 .. (NVaried + NBulk)

Pick(seq, n) == seq[(n % Len(seq)) + 1]

\* the store built from a shift s: person p <= NVaried has the condition
\* events of pattern p - 1, and the demographics and the procedure events that
\* s rotates onto p; the other persons are alike, with no event or the events
\* of the second condition pattern; person 0 has an event and no demographics
\* row
MakeStore(s) ==
    LET c == (s % 2) + 1
        b == (s \div 2) % 2
        cond(p) == IF p <= NVaried THEN Pick(CondPatterns, p - 1)
                   ELSE Pick(CondPatterns, b)
        proc(p) == IF p <= NVaried THEN Pick(ProcPatterns, p + s)
                   ELSE {}
        rows(p, evs) == {[person_id |-> p, concept_id |-> e.concept_id,
                          date |-> e.date] : e \in evs}
    IN [demographics |->
            [p \in Persons |-> IF p <= NVaried THEN Pick(ProfileSeq, p - 1 + s)
                               ELSE ProfileSeq[1]],
        condition_occurrence |-> UNION {rows(p, cond(p)) : p \in Persons}
                                    \cup rows(0, CondPatterns[2]),
        procedure_occurrence |-> UNION {rows(p, proc(p)) : p \in Persons},
        condition_descendants |-> CondClosures[c],
        procedure_descendants |-> ProcClosures[c],
        icd2omop |-> {[icd_code |-> "A01", omop_concept_id |-> 3],
                      [icd_code |-> "B02", omop_concept_id |-> 2]}]

Stores == {MakeStore(s) : s \in 0 .. (Len(ProfileSeq) - 1)}

-----------------------------------------------------------------------------
(* createphenotypes.py: the helpers *)

Get(data, key, default) == IF key \in DOMAIN data THEN data[key] ELSE default

RequiredKeys == {"phenotype_id", "phenotype_name"}

\* _read_jsonl raises KeyError at the first line lacking a required key
ReadRaises(lines) ==
    \E i \in DOMAIN lines :
        /\ ~lines[i].blank
        /\ ~(RequiredKeys \subseteq DOMAIN lines[i].data)

ToPhenotypeDef(data) ==
    [phenotype_id       |-> data["phenotype_id"],
     phenotype_name     |-> data["phenotype_name"],
     universe_cond      |-> Get(data, "universe.cond", {}),
     universe_proc      |-> Get(data, "universe.proc", {}),
     universe_excl_cond |-> Get(data, "universe.excl.cond", {}),
     universe_excl_proc |-> Get(data, "universe.excl.proc", {}),
     case_cond          |-> Get(data, "case.cond", {}),
     case_proc          |-> Get(data, "case.proc", {}),
     case_excl_cond     |-> Get(data, "case.excl.cond", {}),
     case_excl_proc     |-> Get(data, "case.excl.proc", {}),
     case_min_age       |-> Get(data, "case.min.age", NULL),
     case_max_age       |-> Get(data, "case.max.age", NULL),
     ctrl_excl_cond     |-> Get(data, "ctrl.excl.cond", {}),
     ctrl_excl_proc     |-> Get(data, "ctrl.excl.proc", {})]

\* _read_jsonl: blank lines are skipped, every other line becomes a PhenotypeDef
RECURSIVE ReadJsonlLines(_)
ReadJsonlLines(lines) ==
    IF lines = <<>> THEN <<>>
    ELSE IF Head(lines).blank THEN ReadJsonlLines(Tail(lines))
    ELSE <<ToPhenotypeDef(Head(lines).data)>> \o ReadJsonlLines(Tail(lines))

\* the event table and the closure table of a kind
EventTable(st, kind) ==
    IF kind = "condition" THEN st.condition_occurrence ELSE st.procedure_occurrence

DescendantTable(st, kind) ==
    IF kind = "condition" THEN st.condition_descendants ELSE st.procedure_descendants

\* _descendants: descendant_concept_id of the rows whose ancestor is listed
Descendants(st, kind, concept_ids) ==
    IF concept_ids = {} THEN {}
    ELSE {r[2] : r \in {x \in DescendantTable(st, kind) : x[1] \in concept_ids}}

\* mutant: the keys are the recorded descendants only
OccurrenceKeysDescendantsOnly(st, kind, concept_ids) ==
    Descendants(st, kind, concept_ids)

\* the concept keys _occurrence selects events by
OccurrenceKeys(st, kind, concept_ids) ==
    concept_ids \cup Descendants(st, kind, concept_ids)

\* (date - dob).dt.days of a left merge with demographics: NaN without a dob
AgeDays(st, person, date) ==
    IF person \notin DOMAIN st.demographics THEN NULL
    ELSE IF IsNull(st.demographics[person].dob) THEN NULL
    ELSE Some(date - Val(st.demographics[person].dob))

\* _occurrence: one summary row per person with a dated matching event
\* (dropna() drops the events without a date). min_age is kept in days, an
\* age in years being days / 365.25. Of the returned columns the callers read
\* person_id and min_age only; max_date, max_age and n_dates are left out.
Occurrence(st, kind, concept_ids) ==
    IF concept_ids = {} THEN {}
    ELSE
      LET keys   == OccurrenceKeys(st, kind, concept_ids)
          rows   == {e \in EventTable(st, kind) : e.concept_id \in keys}
          dated  == {e \in rows : ~IsNull(e.date)}
          lo(p)  == Min({Val(e.date) : e \in {x \in dated : x.person_id = p}})
      IN {[person_id |-> p,
           min_date  |-> lo(p),
           min_age   |-> AgeDays(st, p, lo(p))] : p \in {e.person_id : e \in dated}}

PersonIds(frame) == {r.person_id : r \in frame}

\* mutant: the ancestry condition is left out of the query
UniverseAnyAncestry(st) ==
    {p \in DOMAIN st.demographics :
        /\ st.demographics[p].sex_at_birth \in {"Male", "Female"}
        /\ st.demographics[p].has_srwgs = 1
        /\ st.demographics[p].has_ehr_data = 1}

\* _universe: the base eligible population
Universe(st) ==
    {p \in DOMAIN st.demographics :
        /\ st.demographics[p].sex_at_birth \in {"Male", "Female"}
        /\ st.demographics[p].has_srwgs = 1
        /\ st.demographics[p].has_ehr_data = 1
        /\ ~IsNull(st.demographics[p].ancestry_pred)}

\* mutant: a non-empty procedure list replaces the condition filter instead
\* of adding to it
ApplyUniverseFiltersLastInclusion(st, universe, cond, proc, excl_cond, excl_proc) ==
    LET u1 == IF cond # {}
              THEN universe \cap PersonIds(Occurrence(st, "condition", cond))
              ELSE universe
        u2 == IF proc # {}
              THEN universe \cap PersonIds(Occurrence(st, "procedure", proc))
              ELSE u1
    IN (u2 \ PersonIds(Occurrence(st, "condition", excl_cond)))
           \ PersonIds(Occurrence(st, "procedure", excl_proc))

\* _apply_universe_filters
ApplyUniverseFilters(st, universe, cond, proc, excl_cond, excl_proc) ==
    IF cond = {} /\ proc = {} /\ excl_cond = {} /\ excl_proc = {} THEN universe
    ELSE
      LET u1 == IF cond # {}
                THEN universe \cap PersonIds(Occurrence(st, "condition", cond))
                ELSE universe
          u2 == IF proc # {}
                THEN u1 \cap PersonIds(Occurrence(st, "procedure", proc))
                ELSE u1
          u3 == IF excl_cond # {}
                THEN u2 \ PersonIds(Occurrence(st, "condition", excl_cond))
                ELSE u2
          u4 == IF excl_proc # {}
                THEN u3 \ PersonIds(Occurrence(st, "procedure", excl_proc))
                ELSE u3
      IN u4

\* mutant: the bounds of the window are exclusive
AgeInWindowExclusive(age_days, case_min_age, case_max_age) ==
    LET min_age == IF ~IsNull(case_min_age) THEN Val(case_min_age) ELSE 0
    IN /\ ~IsNull(age_days)
       /\ Val(age_days) * 4 > min_age * 1461
       /\ IsNull(case_max_age) \/ Val(age_days) * 4 < Val(case_max_age) * 1461

\* age >= min_age and age <= max_age on floats: age = days / 365.25, a missing
\* bound is 0.0 resp. +inf, and a NaN age compares False
AgeInWindow(age_days, case_min_age, case_max_age) ==
    LET min_age == IF ~IsNull(case_min_age) THEN Val(case_min_age) ELSE 0
    IN /\ ~IsNull(age_days)
       /\ Val(age_days) * 4 >= min_age * 1461
       /\ IsNull(case_max_age) \/ Val(age_days) * 4 <= Val(case_max_age) * 1461

\* mutant: the age of the latest of the person's first occurrences
AgeAtFirstDiagnosisLatest(combined, p) ==
    LET ages == {Val(r.min_age) : r \in {x \in combined :
                                    x.person_id = p /\ ~IsNull(x.min_age)}}
    IN IF ages = {} THEN NULL ELSE Some(CHOOSE a \in ages : \A b \in ages : b <= a)

\* groupby("person_id").agg(min) over the concatenated summaries: the smallest
\* non-missing min_age of the person, NaN when every one is missing
AgeAtFirstDiagnosis(combined, p) ==
    LET ages == {Val(r.min_age) : r \in {x \in combined :
                                    x.person_id = p /\ ~IsNull(x.min_age)}}
    IN IF ages = {} THEN NULL ELSE Some(Min(ages))

\* mutant: only the condition summary makes a raw case candidate
CaseIdsConditionOnly(co, po) == PersonIds(co)

\* case_ids of _get_case_control: the raw case candidates
CaseIds(co, po) == PersonIds(co) \cup PersonIds(po)

\* mutant: controls_0 keeps the raw case candidates
Controls0KeepsCases(universe, cases_0) == universe

\* controls_0 of _get_case_control
Controls0(universe, cases_0) == universe \ cases_0

\* the persons of the age-filtered frame age_ok
CasesAge(combined, pheno) ==
    {p \in PersonIds(combined) :
        AgeInWindow(AgeAtFirstDiagnosis(combined, p),
                    pheno.case_min_age, pheno.case_max_age)}

\* mutant: the four exclusion lists are applied to cases and controls alike
GetCaseControlSharedExclusions(st, universe, pheno) ==
    LET co == Occurrence(st, "condition", pheno.case_cond)
        po == Occurrence(st, "procedure", pheno.case_proc)
        cases_0    == universe \cap CaseIds(co, po)
        controls_0 == Controls0(universe, cases_0)
        excluded   == PersonIds(Occurrence(st, "condition", pheno.case_excl_cond))
                      \cup PersonIds(Occurrence(st, "procedure", pheno.case_excl_proc))
                      \cup PersonIds(Occurrence(st, "condition", pheno.ctrl_excl_cond))
                      \cup PersonIds(Occurrence(st, "procedure", pheno.ctrl_excl_proc))
    IN <<(universe \cap CasesAge(co \cup po, pheno)) \ excluded, controls_0 \ excluded>>

\* _get_case_control: <<cases, controls>>
GetCaseControl(st, universe, pheno) ==
    LET co == Occurrence(st, "condition", pheno.case_cond)
        po == Occurrence(st, "procedure", pheno.case_proc)
        case_ids   == CaseIds(co, po)
        cases_0    == universe \cap case_ids
        controls_0 == Controls0(universe, cases_0)
        combined   == co \cup po
        cases_age  == CasesAge(combined, pheno)
        c1 == universe \cap cases_age
        c2 == IF pheno.case_excl_cond # {}
              THEN c1 \ PersonIds(Occurrence(st, "condition", pheno.case_excl_cond))
              ELSE c1
        c3 == IF pheno.case_excl_proc # {}
              THEN c2 \ PersonIds(Occurrence(st, "procedure", pheno.case_excl_proc))
              ELSE c2
        k1 == IF pheno.ctrl_excl_cond # {}
              THEN controls_0 \ PersonIds(Occurrence(st, "condition", pheno.ctrl_excl_cond))
              ELSE controls_0
        k2 == IF pheno.ctrl_excl_proc # {}
              THEN k1 \ PersonIds(Occurrence(st, "procedure", pheno.ctrl_excl_proc))
              ELSE k1
    IN <<c3, k2>>

-----------------------------------------------------------------------------
(* createphenotypes.py: the matrix and the counts report *)

\* the matrix before any row exists
EmptyFrame == [columns |-> <<>>, nrows |-> 0, cell |-> <<>>]

\* pd.DataFrame({"person_id": sorted(base_universe)})
PersonFrame(universe) ==
    LET ids == SortedSeq(universe)
    IN [columns |-> <<"person_id">>,
        nrows   |-> Len(ids),
        cell    |-> ("person_id" :> [i \in 1 .. Len(ids) |-> Some(ids[i])])]

\* mutant: every assignment appends a column, also for a label the frame has
SetColumnAlwaysAppends(frame, label, column) ==
    [columns |-> Append(frame.columns, label),
     nrows   |-> frame.nrows,
     cell    |-> (label :> column) @@ frame.cell]

\* df[label] = ...: a new label is appended, an existing one is overwritten
\* in place
SetColumn(frame, label, column) ==
    [columns |-> IF label \in Range(frame.columns) THEN frame.columns
                 ELSE Append(frame.columns, label),
     nrows   |-> frame.nrows,
     cell    |-> (label :> column) @@ frame.cell]

\* df["person_id"].isin(ids): the rows whose person_id is one of ids
IsIn(frame, ids) ==
    {i \in 1 .. frame.nrows :
        /\ ~IsNull(frame.cell["person_id"][i])
        /\ Val(frame.cell["person_id"][i]) \in ids}

\* mutant: the column starts as 0 instead of NA
AddPhenoColumnZeroFill(frame, cases, controls, label) ==
    LET f0 == SetColumn(frame, label, [i \in 1 .. frame.nrows |-> Some(0)])
        m1 == IsIn(f0, cases)
    IN SetColumn(f0, label,
                [i \in 1 .. f0.nrows |-> IF i \in m1 THEN Some(1) ELSE f0.cell[label][i]])

\* _add_pheno_column: NA everywhere, then 1 for cases, then 0 for controls
AddPhenoColumn(frame, cases, controls, label) ==
    LET f0 == SetColumn(frame, label, [i \in 1 .. frame.nrows |-> NULL])
        m1 == IsIn(f0, cases)
        f1 == SetColumn(f0, label,
                [i \in 1 .. f0.nrows |-> IF i \in m1 THEN Some(1) ELSE f0.cell[label][i]])
        m0 == IsIn(f1, controls)
    IN SetColumn(f1, label,
                [i \in 1 .. f1.nrows |-> IF i \in m0 THEN Some(0) ELSE f1.cell[label][i]])

\* ancestry_df: the ancestry label of every matrix person, NULL shown as "NA"
AncestryFrame(st, universe) ==
    [p \in universe |->
        IF IsNull(st.demographics[p].ancestry_pred) THEN "NA"
        ELSE Val(st.demographics[p].ancestry_pred)]

\* the privacy threshold of the counts report
SuppressBelow == 20

Marker == [marker |-> "<20"]
Count(n) == [count |-> n]

\* mutant: a count equal to the threshold is suppressed too
SuppressThresholdToo(n) == IF n <= SuppressBelow THEN Marker ELSE Count(n)

\* "<20" if n < 20 else n
Suppress(n) == IF n < SuppressBelow THEN Marker ELSE Count(n)

\* ancestry_df[ancestry_df["person_id"].isin(ids)].groupby("ancestry").size()
GroupSizes(anc, ids) ==
    LET members == {p \in DOMAIN anc : p \in ids}
        labels  == {anc[p] : p \in members}
    IN [a \in labels |-> Cardinality({p \in members : anc[p] = a})]

\* mutant: only the labels of the cases get a row
AncestriesOfCases(case_counts, control_counts) ==
    SortedLabels(DOMAIN case_counts)

\* sorted(set(case_counts.index).union(control_counts.index))
Ancestries(case_counts, control_counts) ==
    SortedLabels(DOMAIN case_counts \cup DOMAIN control_counts)

\* the rows one definition appends to counts_rows
CountsBlock(anc, cases, controls, phenotype_id) ==
    LET case_counts    == GroupSizes(anc, cases)
        control_counts == GroupSizes(anc, controls)
        ancestries     == Ancestries(case_counts, control_counts)
    IN [i \in 1 .. Len(ancestries) |->
          [phenotype_id |-> phenotype_id,
           ancestry     |-> ancestries[i],
           ncases       |-> Suppress(Get(case_counts, ancestries[i], 0)),
           ncontrols    |-> Suppress(Get(control_counts, ancestries[i], 0))]]

-----------------------------------------------------------------------------
(* The JSONL input *)

BlankLine == [blank |-> TRUE, data |-> <<>>]
JsonLine(obj) == [blank |-> FALSE, data |-> obj]

Ident(id) == ("phenotype_id" :> id) @@ ("phenotype_name" :> "Test Pheno")

Without(obj, key) == [k \in DOMAIN obj \ {key} |-> obj[k]]

\* [min_age, max_age] as the JSON holds them (null is NULL)
AgeWindows == {<<NULL, NULL>>, <<Some(30), Some(40)>>, <<Some(30), NULL>>,
               <<NULL, Some(40)>>, <<Some(40), Some(30)>>}

UniversePart(a, b, c, d) ==
    ("universe.cond" :> a) @@ ("universe.proc" :> b) @@
    ("universe.excl.cond" :> c) @@ ("universe.excl.proc" :> d)

CasePart(cond, icd, proc, excl_cond, excl_proc, w, ctrl_cond, ctrl_proc) ==
    ("case.cond" :> cond) @@ ("case.cond.icd" :> icd) @@ ("case.proc" :> proc) @@
    ("case.excl.cond" :> excl_cond) @@ ("case.excl.proc" :> excl_proc) @@
    ("case.min.age" :> w[1]) @@ ("case.max.age" :> w[2]) @@
    ("ctrl.excl.cond" :> ctrl_cond) @@ ("ctrl.excl.proc" :> ctrl_proc)

UniverseParts ==
    {UniversePart(a, b, c, d) :
        a \in {{}, {1, 4}}, b \in {{}, {2}}, c \in {{}, {2}}, d \in {{}, {1}}}

NoUniverseFilter == UniversePart({}, {}, {}, {})

\* case inclusion by concept ids, by ICD codes, or by neither
CaseCondChoices == {<<{}, {}>>, <<{3}, {}>>, <<{}, {"A01"}>>}

\* every combination of empty and non-empty case and control lists
CaseParts ==
    {CasePart(cc[1], cc[2], cp, ec, ep, w, xc, xp) :
        cc \in CaseCondChoices, cp \in {{}, {1}}, ec \in {{}, {2}}, ep \in {{}, {2}},
        w \in {<<NULL, NULL>>, <<Some(30), Some(40)>>}, xc \in {{}, {4}}, xp \in {{}, {2}}}

\* every age window
WindowParts ==
    {CasePart(cc[1], cc[2], cp, {}, {}, w, {}, {}) :
        cc \in CaseCondChoices, cp \in {{}, {1}}, w \in AgeWindows}

CaseCore ==
    {CasePart({3}, {}, {}, {}, {}, <<Some(30), Some(40)>>, {}, {}),
     CasePart({3}, {}, {1}, {2}, {}, <<NULL, NULL>>, {4}, {2}),
     CasePart({}, {}, {1}, {}, {2}, <<NULL, Some(40)>>, {}, {})}

\* single definitions, every field present
WideDefs ==
    {Ident("ph1") @@ u @@ c : u \in UniverseParts, c \in CaseCore}
    \cup {Ident("ph1") @@ NoUniverseFilter @@ c : c \in CaseParts \cup WindowParts}

\* definitions that sequences are drawn from; some leave optional keys out,
\* two share an id, the last four are definition errors
TemplateDefs ==
    {Ident("ph1") @@ UniversePart({}, {}, {}, {})
        @@ CasePart({}, {"A01"}, {}, {}, {}, <<Some(30), Some(40)>>, {}, {}),
     Ident("ph2") @@ ("case.cond" :> {3}) @@ ("case.min.age" :> Some(30))
        @@ ("case.max.age" :> Some(40)),
     Ident("ph1") @@ UniversePart({}, {}, {2}, {})
        @@ CasePart({3}, {}, {1}, {2}, {}, <<NULL, NULL>>, {4}, {}),
     Ident("ph3"),
     Ident("ph4") @@ ("case.cond" :> {3}) @@ ("case.min.age" :> Some(40))
        @@ ("case.max.age" :> Some(30)),
     Ident("ph5") @@ ("case.cond" :> {-1, 3}),
     Without(Ident("ph6") @@ ("case.cond" :> {3}), "phenotype_name"),
     Without(Ident("ph7") @@ ("case.cond" :> {3}), "phenotype_id")}

TemplateLines == {JsonLine(d) : d \in TemplateDefs} \cup {BlankLine}

\* a file of three definitions, a first, a middle and a last; the last
\* repeats the id of the first
ThreeDefs ==
    << JsonLine(Ident("ph2") @@ ("case.cond" :> {3}) @@ ("case.min.age" :> Some(30))
            @@ ("case.max.age" :> Some(40))),
       JsonLine(Ident("ph1") @@ UniversePart({}, {}, {2}, {})
            @@ CasePart({3}, {}, {1}, {2}, {}, <<NULL, NULL>>, {4}, {})),
       JsonLine(Ident("ph2") @@ ("case.cond" :> {3}) @@ ("case.proc" :> {1})
            @@ ("case.min.age" :> Some(30)) @@ ("case.max.age" :> Some(40))) >>

\* the JSONL files of the model: the empty file, one definition of WideDefs,
\* up to MaxPhenos lines of TemplateLines, or the three definitions
Inputs ==
    {<<>>}
    \cup {<<JsonLine(d)>> : d \in WideDefs}
    \cup UNION {[1 .. n -> TemplateLines] : n \in 1 .. MaxPhenos}
    \cup {ThreeDefs}

\* no sheet: xls2json is not run
NoSheet == [columns |-> {}, rows |-> <<>>]

-----------------------------------------------------------------------------
(* createphenotypes.py: main() *)

Init ==
    /\ store \in Stores
    /\ jsonl \in Inputs
    /\ pc = "read"
    /\ phenos = <<>>
    /\ con = "none"
    /\ base_universe = {}
    /\ df = EmptyFrame
    /\ ancestry_df = <<>>
    /\ counts_rows = <<>>
    /\ idx = 0
    /\ results = <<>>
    /\ matrix_file = NULL
    /\ counts_file = NULL
    /\ sheet = NoSheet
    /\ xpc = "idle"
    /\ row_i = 0
    /\ handle = NULL

\* phenos = _read_jsonl(path) returns a non-empty list
ReadJsonl ==
    /\ pc = "read"
    /\ ~ReadRaises(jsonl)
    /\ ReadJsonlLines(jsonl) # <<>>
    /\ phenos' = ReadJsonlLines(jsonl)
    /\ pc' = "connect"
    /\ UNCHANGED <<store, jsonl, con, base_universe, df, ancestry_df,
                   counts_rows, idx, results, matrix_file, counts_file>>
    /\ UNCHANGED xvars

\* _read_jsonl raises KeyError: the run ends before the store is opened
ReadJsonlKeyError ==
    /\ pc = "read"
    /\ ReadRaises(jsonl)
    /\ pc' = "KeyError"
    /\ UNCHANGED <<store, jsonl, phenos, con, base_universe, df, ancestry_df,
                   counts_rows, idx, results, matrix_file, counts_file>>
    /\ UNCHANGED xvars

\* raise SystemExit("No phenotypes found in JSONL")
NoPhenotypes ==
    /\ pc = "read"
    /\ ~ReadRaises(jsonl)
    /\ ReadJsonlLines(jsonl) = <<>>
    /\ pc' = "SystemExit"
    /\ UNCHANGED <<store, jsonl, phenos, con, base_universe, df, ancestry_df,
                   counts_rows, idx, results, matrix_file, counts_file>>
    /\ UNCHANGED xvars

\* con = sqlite3.connect(args.sqlite)
Connect ==
    /\ pc = "connect"
    /\ con' = "open"
    /\ pc' = "universe"
    /\ UNCHANGED <<store, jsonl, phenos, base_universe, df, ancestry_df,
                   counts_rows, idx, results, matrix_file, counts_file>>
    /\ UNCHANGED xvars

\* base_universe, df, ancestry_df and the empty counts_rows
BaseUniverse ==
    /\ pc = "universe"
    /\ base_universe' = Universe(store)
    /\ df' = PersonFrame(Universe(store))
    /\ ancestry_df' = AncestryFrame(store, Universe(store))
    /\ counts_rows' = <<>>
    /\ pc' = "loop"
    /\ UNCHANGED <<store, jsonl, phenos, con, idx, results, matrix_file, counts_file>>
    /\ UNCHANGED xvars

\* mutant: the loop refines the universe of the previous definition instead of
\* the base population
ProcessPhenoNarrowing ==
    /\ pc = "loop"
    /\ idx < Len(phenos)
    /\ LET pheno    == phenos[idx + 1]
           universe == ApplyUniverseFilters(store,
                           IF results = <<>> THEN base_universe
                           ELSE results[Len(results)].universe,
                           pheno.universe_cond, pheno.universe_proc,
                           pheno.universe_excl_cond, pheno.universe_excl_proc)
           cc       == GetCaseControl(store, universe, pheno)
       IN /\ df' = AddPhenoColumn(df, cc[1], cc[2], pheno.phenotype_id)
          /\ counts_rows' = counts_rows
                 \o CountsBlock(ancestry_df, cc[1], cc[2], pheno.phenotype_id)
          /\ results' = Append(results,
                 [universe |-> universe, cases |-> cc[1], controls |-> cc[2],
                  first_row |-> Len(counts_rows) + 1])
    /\ idx' = idx + 1
    /\ UNCHANGED <<store, jsonl, pc, phenos, con, base_universe, ancestry_df,
                   matrix_file, counts_file>>
    /\ UNCHANGED xvars

\* one iteration of the for-loop over phenos
ProcessPheno ==
    /\ pc = "loop"
    /\ idx < Len(phenos)
    /\ LET pheno    == phenos[idx + 1]
           universe == ApplyUniverseFilters(store, base_universe,
                           pheno.universe_cond, pheno.universe_proc,
                           pheno.universe_excl_cond, pheno.universe_excl_proc)
           cc       == GetCaseControl(store, universe, pheno)
       IN /\ df' = AddPhenoColumn(df, cc[1], cc[2], pheno.phenotype_id)
          /\ counts_rows' = counts_rows
                 \o CountsBlock(ancestry_df, cc[1], cc[2], pheno.phenotype_id)
          /\ results' = Append(results,
                 [universe |-> universe, cases |-> cc[1], controls |-> cc[2],
                  first_row |-> Len(counts_rows) + 1])
    /\ idx' = idx + 1
    /\ UNCHANGED <<store, jsonl, pc, phenos, con, base_universe, ancestry_df,
                   matrix_file, counts_file>>
    /\ UNCHANGED xvars

\* a store access raises inside the try block
StoreError ==
    /\ \/ pc = "universe"
       \/ pc = "loop" /\ idx < Len(phenos)
    /\ pc' = "raised"
    /\ UNCHANGED <<store, jsonl, phenos, con, base_universe, df, ancestry_df,
                   counts_rows, idx, results, matrix_file, counts_file>>
    /\ UNCHANGED xvars

\* finally: con.close(), after the loop has finished
Close ==
    /\ pc = "loop"
    /\ idx = Len(phenos)
    /\ con' = "closed"
    /\ pc' = "write_matrix"
    /\ UNCHANGED <<store, jsonl, phenos, base_universe, df, ancestry_df,
                   counts_rows, idx, results, matrix_file, counts_file>>
    /\ UNCHANGED xvars

\* mutant: the exception is swallowed and the run goes on to write the files
CloseRaisedThenWrites ==
    /\ pc = "raised"
    /\ con' = "closed"
    /\ pc' = "write_matrix"
    /\ UNCHANGED <<store, jsonl, phenos, base_universe, df, ancestry_df,
                   counts_rows, idx, results, matrix_file, counts_file>>
    /\ UNCHANGED xvars

\* finally: con.close(), with the exception propagating out of main
CloseRaised ==
    /\ pc = "raised"
    /\ con' = "closed"
    /\ pc' = "StoreError"
    /\ UNCHANGED <<store, jsonl, phenos, base_universe, df, ancestry_df,
                   counts_rows, idx, results, matrix_file, counts_file>>
    /\ UNCHANGED xvars

\* df.to_csv(output_path, ...)
WriteMatrix ==
    /\ pc = "write_matrix"
    /\ matrix_file' = Some(df)
    /\ pc' = "write_counts"
    /\ UNCHANGED <<store, jsonl, phenos, con, base_universe, df, ancestry_df,
                   counts_rows, idx, results, counts_file>>
    /\ UNCHANGED xvars

\* counts_df.to_csv(counts_path, ...); return 0
WriteCounts ==
    /\ pc = "write_counts"
    /\ counts_file' = Some(counts_rows)
    /\ pc' = "done"
    /\ UNCHANGED <<store, jsonl, phenos, con, base_universe, df, ancestry_df,
                   counts_rows, idx, results, matrix_file>>
    /\ UNCHANGED xvars

Next ==
    \/ ReadJsonl
    \/ ReadJsonlKeyError
    \/ NoPhenotypes
    \/ Connect
    \/ BaseUniverse
    \/ ProcessPheno
    \/ StoreError
    \/ Close
    \/ CloseRaised
    \/ WriteMatrix
    \/ WriteCounts

Spec == Init /\ [][Next]_vars

-----------------------------------------------------------------------------
(* xls2json.py: the helpers *)

\* longest text of a freely chosen cell
MaxText == 3
\* most rows of a sheet drawn from the template rows
MaxRows == 2

REQUIRED_COLUMNS == <<"phenotype_id", "phenotype_name">>

OPTIONAL_COLUMNS == <<
    "universe.cond", "universe.cond.icd", "universe.proc", "universe.excl.cond",
    "universe.excl.cond.icd", "universe.excl.proc", "case.cond", "case.cond.icd",
    "case.proc", "case.excl.cond", "case.excl.cond.icd", "case.excl.proc",
    "case.min.age", "case.max.age", "ctrl.excl.cond", "ctrl.excl.cond.icd",
    "ctrl.excl.proc" >>

ALLOWED_COLUMNS == Range(REQUIRED_COLUMNS) \cup Range(OPTIONAL_COLUMNS)

CONCEPT_LIST_COLUMNS ==
    {"universe.cond", "universe.proc", "universe.excl.cond", "universe.excl.proc",
     "case.cond", "case.proc", "case.excl.cond", "case.excl.proc",
     "ctrl.excl.cond", "ctrl.excl.proc"}

ICD_LIST_COLUMNS ==
    {"universe.cond.icd", "universe.excl.cond.icd", "case.cond.icd",
     "case.excl.cond.icd", "ctrl.excl.cond.icd"}

AGE_COLUMNS == {"case.min.age", "case.max.age"}

\* a text is a sequence of characters; a cell is NULL (None, NaN) or Some(text),
\* the text being str(value)
Digits == {"0", "1"}
Alphabet == {" ", ",", "A"} \cup Digits

\* str.strip()
RECURSIVE LStrip(_)
LStrip(t) == IF t # <<>> /\ Head(t) = " " THEN LStrip(Tail(t)) ELSE t

RECURSIVE RStrip(_)
RStrip(t) ==
    IF t # <<>> /\ t[Len(t)] = " " THEN RStrip(SubSeq(t, 1, Len(t) - 1)) ELSE t

Strip(t) == RStrip(LStrip(t))

\* text.split(",")
RECURSIVE Split(_)
Split(t) ==
    IF \A i \in DOMAIN t : t[i] # "," THEN <<t>>
    ELSE LET i == Min({j \in DOMAIN t : t[j] = ","})
         IN <<SubSeq(t, 1, i - 1)>> \o Split(SubSeq(t, i + 1, Len(t)))

NonEmptyText(t) == t # <<>>

\* [p.strip() for p in text.split(",") if p.strip()]
Parts(text) ==
    LET sp == Split(text)
    IN SelectSeq([i \in DOMAIN sp |-> Strip(sp[i])], NonEmptyText)

\* str.isdigit()
IsDigit(t) == t # <<>> /\ \A i \in DOMAIN t : t[i] \in Digits

\* int(part) of a text of digits
RECURSIVE ToInt(_)
ToInt(t) ==
    IF t = <<>> THEN 0
    ELSE ToInt(SubSeq(t, 1, Len(t) - 1)) * 10 + (IF t[Len(t)] = "1" THEN 1 ELSE 0)

\* _normalize_cell: None for a missing, empty or whitespace cell
NormalizeCell(value) ==
    IF IsNull(value) THEN NULL
    ELSE IF Strip(Val(value)) # <<>> THEN Some(Strip(Val(value))) ELSE NULL

\* _parse_concept_list raises ValueError: a part is not numeric
ParseConceptListRaises(value) ==
    LET text == NormalizeCell(value)
    IN /\ ~IsNull(text)
       /\ \E i \in DOMAIN Parts(Val(text)) : ~IsDigit(Parts(Val(text))[i])

\* _parse_concept_list
ParseConceptList(value) ==
    LET text == NormalizeCell(value)
    IN IF IsNull(text) THEN <<>>
       ELSE [i \in DOMAIN Parts(Val(text)) |-> ToInt(Parts(Val(text))[i])]

\* _parse_icd_list
ParseIcdList(value) ==
    LET text == NormalizeCell(value)
    IN IF IsNull(text) THEN <<>> ELSE Parts(Val(text))

\* _parse_age raises ValueError: float(text) fails; of the texts over Alphabet
\* float() accepts those of digits only
ParseAgeRaises(value) ==
    LET text == NormalizeCell(value)
    IN ~IsNull(text) /\ ~IsDigit(Val(text))

\* _parse_age
ParseAge(value) ==
    LET text == NormalizeCell(value)
    IN IF IsNull(text) THEN NULL ELSE Some(ToInt(Val(text)))

\* the value _row_to_record parses column col of the row into
ParseColumn(row, col) ==
    IF col \in CONCEPT_LIST_COLUMNS THEN ParseConceptList(Get(row, col, NULL))
    ELSE IF col \in ICD_LIST_COLUMNS THEN ParseIcdList(Get(row, col, NULL))
    ELSE IF col \in AGE_COLUMNS THEN ParseAge(Get(row, col, NULL))
    ELSE NormalizeCell(Get(row, col, NULL))

\* a column of the row fails to parse
ParseRaises(row) ==
    \/ \E col \in CONCEPT_LIST_COLUMNS : ParseConceptListRaises(Get(row, col, NULL))
    \/ \E col \in AGE_COLUMNS : ParseAgeRaises(Get(row, col, NULL))

\* mutant: the case-inclusion condition is not required
RowToRecordRaisesIdNameOnly(row) ==
    \/ ParseRaises(row)
    \/ IsNull(ParseColumn(row, "phenotype_id"))
    \/ IsNull(ParseColumn(row, "phenotype_name"))

\* _row_to_record raises ValueError
RowToRecordRaises(row) ==
    \/ ParseRaises(row)
    \/ IsNull(ParseColumn(row, "phenotype_id"))
    \/ IsNull(ParseColumn(row, "phenotype_name"))
    \/ ParseColumn(row, "case.cond") = <<>> /\ ParseColumn(row, "case.cond.icd") = <<>>

\* _row_to_record: the record of a row that does not raise
RowToRecord(row) == [col \in ALLOWED_COLUMNS |-> ParseColumn(row, col)]

\* pd.isna(row.get("phenotype_id")) and pd.isna(row.get("phenotype_name"))
IsBlankRow(row) ==
    /\ IsNull(Get(row, "phenotype_id", NULL))
    /\ IsNull(Get(row, "phenotype_name", NULL))

-----------------------------------------------------------------------------
(* xls2json.py: the sheets and main() *)

Texts == UNION {[1 .. n -> Alphabet] : n \in 0 .. MaxText}
Cells == {NULL} \cup {Some(t) : t \in Texts}

\* a row over the columns id, name, case.cond, case.cond.icd
FocusColumns == {"phenotype_id", "phenotype_name", "case.cond", "case.cond.icd"}

FocusRow(id, name, cond, icd) ==
    ("phenotype_id" :> id) @@ ("phenotype_name" :> name) @@
    ("case.cond" :> cond) @@ ("case.cond.icd" :> icd)

\* one row, its case.cond cell being any text
FocusSheets ==
    {[columns |-> FocusColumns, rows |-> <<FocusRow(id, name, cond, icd)>>] :
        id   \in {NULL, Some(<<"A">>), Some(<<" ">>)},
        name \in {NULL, Some(<<"A">>)},
        cond \in Cells,
        icd  \in {NULL, Some(<<" ">>), Some(<<",">>), Some(<<"A">>),
                  Some(<<"A", ",", "1">>)}}

\* a row over every allowed column: the cells of overrides, NULL elsewhere
WideRow(overrides) == overrides @@ [col \in ALLOWED_COLUMNS |-> NULL]

\* the rows that longer sheets are drawn from: the row of the test, a blank
\* row, a row without case condition, rows with an invalid concept id, an
\* invalid age and no phenotype_id, and a row with ICD codes only
TemplateRows ==
    {WideRow(FocusRow(Some(<<"A">>), Some(<<"A">>), Some(<<"1", "0", ",", " ", "1">>),
                      Some(<<"A", ",", " ", "A">>))
             @@ ("case.min.age" :> Some(<<"1", "0">>))
             @@ ("case.max.age" :> Some(<<"1", "1">>))
             @@ ("universe.cond" :> Some(<<>>))),
     WideRow(<<>>),
     WideRow(FocusRow(Some(<<"A">>), Some(<<"A">>), NULL, Some(<<" ", ",">>))
             @@ ("case.proc" :> Some(<<"1">>))),
     WideRow(FocusRow(Some(<<"A">>), Some(<<"A">>), Some(<<"1">>), NULL)
             @@ ("case.proc" :> Some(<<"A">>))),
     WideRow(FocusRow(Some(<<"A">>), Some(<<"A">>), NULL, Some(<<"A">>))
             @@ ("case.max.age" :> Some(<<"A">>))),
     WideRow(FocusRow(NULL, Some(<<"A">>), Some(<<"1">>), NULL)),
     WideRow(FocusRow(Some(<<"A">>), Some(<<"A">>), NULL, Some(<<"A">>)))}

TemplateSheets ==
    {[columns |-> ALLOWED_COLUMNS, rows |-> rows] :
        rows \in UNION {[1 .. n -> TemplateRows] : n \in 0 .. MaxRows}}

\* sheets by their columns: the required columns only, an unknown column, a
\* required column missing
ColumnSheets ==
    {[columns |-> {"phenotype_id", "phenotype_name"},
      rows |-> <<("phenotype_id" :> Some(<<"A">>)) @@ ("phenotype_name" :> Some(<<"A">>))>>],
     [columns |-> {"phenotype_id", "phenotype_name", "case.cond", "bad.col"},
      rows |-> <<("phenotype_id" :> Some(<<"A">>)) @@ ("phenotype_name" :> Some(<<"A">>))
                 @@ ("case.cond" :> Some(<<"1">>)) @@ ("bad.col" :> Some(<<"A">>))>>],
     [columns |-> {"phenotype_id", "case.cond"},
      rows |-> <<("phenotype_id" :> Some(<<"A">>)) @@ ("case.cond" :> Some(<<"1">>))>>]}

Sheets == FocusSheets \cup TemplateSheets \cup ColumnSheets

InitXls ==
    /\ sheet \in Sheets
    /\ xpc = "read_excel"
    /\ row_i = 0
    /\ handle = NULL
    /\ store = <<>>
    /\ jsonl = <<>>
    /\ pc = "idle"
    /\ phenos = <<>>
    /\ con = "none"
    /\ base_universe = {}
    /\ df = EmptyFrame
    /\ ancestry_df = <<>>
    /\ counts_rows = <<>>
    /\ idx = 0
    /\ results = <<>>
    /\ matrix_file = NULL
    /\ counts_file = NULL

\* raise ValueError("Missing required columns: ...")
MissingColumns ==
    /\ xpc = "read_excel"
    /\ ~(Range(REQUIRED_COLUMNS) \subseteq sheet.columns)
    /\ xpc' = "ValueError"
    /\ UNCHANGED <<sheet, row_i, handle>>
    /\ UNCHANGED cvars

\* raise ValueError("Unknown columns: ...")
UnknownColumns ==
    /\ xpc = "read_excel"
    /\ Range(REQUIRED_COLUMNS) \subseteq sheet.columns
    /\ ~(sheet.columns \subseteq ALLOWED_COLUMNS)
    /\ xpc' = "ValueError"
    /\ UNCHANGED <<sheet, row_i, handle>>
    /\ UNCHANGED cvars

\* with output_path.open("w") as handle: the output file exists and is empty
OpenOutput ==
    /\ xpc = "read_excel"
    /\ Range(REQUIRED_COLUMNS) \subseteq sheet.columns
    /\ sheet.columns \subseteq ALLOWED_COLUMNS
    /\ handle' = Some(<<>>)
    /\ xpc' = "rows"
    /\ UNCHANGED <<sheet, row_i>>
    /\ UNCHANGED cvars

\* a blank row: continue
SkipBlankRow ==
    /\ xpc = "rows"
    /\ row_i < Len(sheet.rows)
    /\ IsBlankRow(sheet.rows[row_i + 1])
    /\ row_i' = row_i + 1
    /\ UNCHANGED <<sheet, xpc, handle>>
    /\ UNCHANGED cvars

\* record = _row_to_record(row); handle.write(json.dumps(record) + "\n")
WriteRecord ==
    /\ xpc = "rows"
    /\ row_i < Len(sheet.rows)
    /\ ~IsBlankRow(sheet.rows[row_i + 1])
    /\ ~RowToRecordRaises(sheet.rows[row_i + 1])
    /\ handle' = Some(Append(Val(handle), RowToRecord(sheet.rows[row_i + 1])))
    /\ row_i' = row_i + 1
    /\ UNCHANGED <<sheet, xpc>>
    /\ UNCHANGED cvars

\* _row_to_record raises ValueError: the file keeps the records written before
RowError ==
    /\ xpc = "rows"
    /\ row_i < Len(sheet.rows)
    /\ ~IsBlankRow(sheet.rows[row_i + 1])
    /\ RowToRecordRaises(sheet.rows[row_i + 1])
    /\ xpc' = "ValueError"
    /\ UNCHANGED <<sheet, row_i, handle>>
    /\ UNCHANGED cvars

\* the rows are exhausted: return 0
ReturnXls ==
    /\ xpc = "rows"
    /\ row_i = Len(sheet.rows)
    /\ xpc' = "done"
    /\ UNCHANGED <<sheet, row_i, handle>>
    /\ UNCHANGED cvars

NextXls ==
    \/ MissingColumns
    \/ UnknownColumns
    \/ OpenOutput
    \/ SkipBlankRow
    \/ WriteRecord
    \/ RowError
    \/ ReturnXls

SpecXls == InitXls /\ [][NextXls]_vars

-----------------------------------------------------------------------------
(* Properties *)

\* the iterations of the for-loop completed so far
Done == 1 .. Len(results)

\* the matrix rows holding person p
RowsOf(p) == {i \in 1 .. df.nrows : df.cell["person_id"][i] = Some(p)}

\* iteration k wrote the column that df holds now under its phenotype_id: no
\* later iteration has reused the id
Holds(k) == \A j \in Done : j > k => phenos[j].phenotype_id # phenos[k].phenotype_id

\* C1: for every definition processed, cases and controls are disjoint, both
\* lie in the refined universe, and the refined universe lies in the base
\* eligible population
C1_DisjointWithinUniverse ==
    \A k \in Done :
        /\ results[k].cases \cap results[k].controls = {}
        /\ results[k].cases \cup results[k].controls \subseteq results[k].universe
        /\ results[k].universe \subseteq base_universe

\* a definition with cases, with controls, with a universe member that is
\* neither, and with a universe strictly inside the base population
C1_Witness ==
    \E k \in Done :
        /\ results[k].cases # {}
        /\ results[k].controls # {}
        /\ results[k].universe \ (results[k].cases \cup results[k].controls) # {}
        /\ results[k].universe # base_universe

\* C2: for every definition whose column the matrix holds and every person of
\* the base eligible population, the person has one row, and its cell is 1
\* exactly for a case, 0 exactly for a control and missing exactly for neither
C2_CellsMatchCaseControl ==
    \A k \in Done : Holds(k) =>
        \A p \in base_universe :
            LET rows == RowsOf(p)
            IN /\ Cardinality(rows) = 1
               /\ \A i \in rows :
                   LET cell == df.cell[phenos[k].phenotype_id][i]
                   IN /\ cell = Some(1) <=> p \in results[k].cases
                      /\ cell = Some(0) <=> p \in results[k].controls
                      /\ cell = NULL <=> p \notin results[k].cases \cup results[k].controls

\* a column holding a 1, a 0 and a missing cell
C2_Witness ==
    \E k \in Done :
        /\ Holds(k)
        /\ \E i, j, l \in 1 .. df.nrows :
            /\ df.cell[phenos[k].phenotype_id][i] = Some(1)
            /\ df.cell[phenos[k].phenotype_id][j] = Some(0)
            /\ df.cell[phenos[k].phenotype_id][l] = NULL

\* the phenotype_ids of the first n definitions, each once, in the order of
\* their first appearance
RECURSIVE DistinctIds(_)
DistinctIds(n) ==
    IF n = 0 THEN <<>>
    ELSE LET before == DistinctIds(n - 1)
             id     == phenos[n].phenotype_id
         IN IF id \in Range(before) THEN before ELSE Append(before, id)

\* the person_id column lists S in ascending order, one row per person
RowsAre(frame, S) ==
    /\ frame.nrows = Cardinality(S)
    /\ {Val(frame.cell["person_id"][i]) : i \in 1 .. frame.nrows} = S
    /\ \A i, j \in 1 .. frame.nrows :
          i < j => Val(frame.cell["person_id"][i]) < Val(frame.cell["person_id"][j])

BlockOf(k) ==
    LET last == IF k < Len(results) THEN results[k + 1].first_row - 1
                ELSE Len(counts_rows)
    IN results[k].first_row .. last

\* the ancestry label the demographics table holds for p
LabelOf(p) == Val(store.demographics[p].ancestry_pred)

\* the persons of S with ancestry label a
Stratum(S, a) == {p \in S : LabelOf(p) = a}

\* the ancestry labels of the persons of the base eligible population
BaseLabels == {LabelOf(p) : p \in base_universe}

\* C4: every count emitted is the marker or an integer >= 20; a stratum count
\* in 0..19 is emitted as the marker, a count >= 20 as the number of cases
\* (controls) of the definition with the row's ancestry label
C4_SmallCountsSuppressed ==
    /\ \A r \in DOMAIN counts_rows :
          /\ counts_rows[r].ncases = Marker
                \/ \E n \in 20 .. Cardinality(base_universe) :
                      counts_rows[r].ncases = Count(n)
          /\ counts_rows[r].ncontrols = Marker
                \/ \E n \in 20 .. Cardinality(base_universe) :
                      counts_rows[r].ncontrols = Count(n)
    /\ \A k \in Done : \A r \in BlockOf(k) :
          LET ncases    == Cardinality(Stratum(results[k].cases, counts_rows[r].ancestry))
              ncontrols == Cardinality(Stratum(results[k].controls, counts_rows[r].ancestry))
          IN /\ ncases \in 0 .. 19 => counts_rows[r].ncases = Marker
             /\ ncases >= 20 => counts_rows[r].ncases = Count(ncases)
             /\ ncontrols \in 0 .. 19 => counts_rows[r].ncontrols = Marker
             /\ ncontrols >= 20 => counts_rows[r].ncontrols = Count(ncontrols)
    /\ ~IsNull(counts_file) => Val(counts_file) = counts_rows

\* a written counts file with a row of exactly 19 cases, suppressed, and a
\* row of exactly 20 cases, emitted as 20
C4_Witness ==
    /\ pc = "done"
    /\ \E k1, k2 \in Done : \E r1 \in BlockOf(k1), r2 \in BlockOf(k2) :
          /\ Cardinality(Stratum(results[k1].cases, counts_rows[r1].ancestry)) = 19
          /\ Val(counts_file)[r1].ncases = Marker
          /\ Cardinality(Stratum(results[k2].cases, counts_rows[r2].ancestry)) = 20
          /\ Val(counts_file)[r2].ncases = Count(20)

\* C5: the rows a definition appends carry its phenotype_id, one row for each
\* ancestry label with at least one case or control and none for another
\* label, in ascending label order; the blocks follow one another in the
\* order of the definitions and make up the whole report
C5_OneRowPerOccupiedStratum ==
    /\ \A k \in Done :
          /\ \A r \in BlockOf(k) : counts_rows[r].phenotype_id = phenos[k].phenotype_id
          /\ {counts_rows[r].ancestry : r \in BlockOf(k)}
                = {a \in BaseLabels :
                      Stratum(results[k].cases \cup results[k].controls, a) # {}}
          /\ \A r1, r2 \in BlockOf(k) :
                r1 < r2 => LabelRank(counts_rows[r1].ancestry)
                               < LabelRank(counts_rows[r2].ancestry)
    /\ \A k \in Done : k > 1 => results[k - 1].first_row <= results[k].first_row
    /\ Done # {} => results[1].first_row = 1
    /\ UNION {BlockOf(k) : k \in Done} = DOMAIN counts_rows

\* two definitions processed: the first has a row for each of two labels, the
\* second has no row for a label that base-population persons carry
C5_Witness ==
    /\ Len(results) = 2
    /\ Cardinality(BlockOf(1)) = 2
    /\ BlockOf(2) # {}
    /\ \E a \in BaseLabels : \A r \in BlockOf(2) : counts_rows[r].ancestry # a

\* the four eligibility conditions, read from the demographics row of p
HasGenomicData(p)  == store.demographics[p].has_srwgs = 1
HasClinicalData(p) == store.demographics[p].has_ehr_data = 1
HasBinarySex(p)    == store.demographics[p].sex_at_birth \in {"Male", "Female"}
HasAncestry(p)     == store.demographics[p].ancestry_pred # NULL

Eligible(p) ==
    HasGenomicData(p) /\ HasClinicalData(p) /\ HasBinarySex(p) /\ HasAncestry(p)

\* C6: once computed, the base eligible population is exactly the persons
\* meeting all four conditions; a person failing one has no matrix row and is
\* in no definition's universe, cases or controls
C6_BaseUniverseIsEligible ==
    pc \in {"loop", "raised", "StoreError", "write_matrix", "write_counts", "done"}
        /\ (pc \in {"raised", "StoreError"} => df # EmptyFrame) =>
        \A p \in DOMAIN store.demographics :
            /\ p \in base_universe <=> Eligible(p)
            /\ ~Eligible(p) =>
                  /\ RowsOf(p) = {}
                  /\ p \notin DOMAIN ancestry_df
                  /\ \A k \in Done :
                        p \notin results[k].universe \cup results[k].cases
                                     \cup results[k].controls

\* a definition has been processed in a store that holds, for each of the four
\* conditions, a person failing that condition only and having matching
\* events, and eligible persons
C6_Witness ==
    /\ Done # {}
    /\ results[1].cases # {}
    /\ \E p \in DOMAIN store.demographics :
          ~HasGenomicData(p) /\ HasClinicalData(p) /\ HasBinarySex(p) /\ HasAncestry(p)
          /\ p \in PersonIds(Occurrence(store, "condition", phenos[1].case_cond))
    /\ \E p \in DOMAIN store.demographics :
          HasGenomicData(p) /\ ~HasClinicalData(p) /\ HasBinarySex(p) /\ HasAncestry(p)
          /\ p \in PersonIds(Occurrence(store, "condition", phenos[1].case_cond))
    /\ \E p \in DOMAIN store.demographics :
          HasGenomicData(p) /\ HasClinicalData(p) /\ ~HasBinarySex(p) /\ HasAncestry(p)
          /\ p \in PersonIds(Occurrence(store, "condition", phenos[1].case_cond))
    /\ \E p \in DOMAIN store.demographics :
          HasGenomicData(p) /\ HasClinicalData(p) /\ HasBinarySex(p) /\ ~HasAncestry(p)
          /\ p \in PersonIds(Occurrence(store, "condition", phenos[1].case_cond))

\* the days of the dated events of person p, of a kind, whose concept is one
\* of ids or a descendant of one
MatchingDays(kind, ids, p) ==
    LET table == IF kind = "condition" THEN store.condition_occurrence
                 ELSE store.procedure_occurrence
        tree  == IF kind = "condition" THEN store.condition_descendants
                 ELSE store.procedure_descendants
    IN IF ids = {} THEN {}
       ELSE {Val(e.date) : e \in {x \in table :
                /\ x.person_id = p
                /\ x.date # NULL
                /\ \/ x.concept_id \in ids
                   \/ \E a \in ids : <<a, x.concept_id>> \in tree}}

\* the days of the qualifying case-inclusion occurrences of p for definition k
CaseDays(k, p) ==
    MatchingDays("condition", phenos[k].case_cond, p)
        \cup MatchingDays("procedure", phenos[k].case_proc, p)

\* p is a raw case candidate of definition k
RawCandidate(k, p) == CaseDays(k, p) # {}

\* p has a qualifying case-exclusion occurrence for definition k
CaseExcluded(k, p) ==
    MatchingDays("condition", phenos[k].case_excl_cond, p)
        \cup MatchingDays("procedure", phenos[k].case_excl_proc, p) # {}

HasDob(p) == store.demographics[p].dob # NULL

\* days from birth to the first qualifying case-inclusion occurrence
FirstDays(k, p) == Min(CaseDays(k, p)) - Val(store.demographics[p].dob)

\* days / 365.25 lies in [min_age, max_age], 0 and +infinity when absent
InsideWindow(k, days) ==
    /\ days * 4 >= (IF phenos[k].case_min_age = NULL THEN 0
                    ELSE Val(phenos[k].case_min_age)) * 1461
    /\ phenos[k].case_max_age # NULL => days * 4 <= Val(phenos[k].case_max_age) * 1461

\* the cells of p in the column of definition k are missing
CellMissing(k, p) ==
    \A i \in RowsOf(p) : df.cell[phenos[k].phenotype_id][i] = NULL

\* C7: a raw case candidate of the refined universe is never a control; one
\* that fails the age window, has no computable age or has a case exclusion
\* is neither case nor control, and its matrix cell is missing
C7_CandidateNeverControl ==
    \A k \in Done : \A p \in results[k].universe :
        LET fails == \/ ~HasDob(p)
                     \/ HasDob(p) /\ ~InsideWindow(k, FirstDays(k, p))
                     \/ CaseExcluded(k, p)
        IN RawCandidate(k, p) =>
              /\ p \notin results[k].controls
              /\ fails => p \notin results[k].cases
              /\ (fails /\ Holds(k)) => CellMissing(k, p)

\* one definition leaves three candidates of its universe unclassified: one
\* outside the age window, one without date of birth, one case-excluded
C7_Witness ==
    \E k \in Done : \E p1, p2, p3 \in results[k].universe :
        /\ Holds(k)
        /\ RawCandidate(k, p1) /\ HasDob(p1) /\ ~InsideWindow(k, FirstDays(k, p1))
        /\ RawCandidate(k, p2) /\ ~HasDob(p2)
        /\ RawCandidate(k, p3) /\ HasDob(p3) /\ InsideWindow(k, FirstDays(k, p3))
              /\ CaseExcluded(k, p3)
        /\ CellMissing(k, p1) /\ CellMissing(k, p2) /\ CellMissing(k, p3)

\* C8 as claimed: a candidate of the universe whose age at first diagnosis
\* lies outside the window is a control
C8_OutsideWindowIsControl ==
    \A k \in Done : \A p \in results[k].universe :
        RawCandidate(k, p) /\ HasDob(p) /\ ~InsideWindow(k, FirstDays(k, p))
            => p \in results[k].controls

\* C8 amended: a candidate of the universe whose age at first diagnosis lies
\* outside the window is neither case nor control; one whose age lies inside
\* (bounds included) is a case unless a case exclusion removes it
C8_OutsideWindowIsUnclassified ==
    \A k \in Done : \A p \in results[k].universe :
        RawCandidate(k, p) /\ HasDob(p) =>
            IF InsideWindow(k, FirstDays(k, p))
            THEN p \in results[k].cases <=> ~CaseExcluded(k, p)
            ELSE p \notin results[k].cases \cup results[k].controls

\* the scenario: window [30, 40], a candidate aged 20.0 at the event is left
\* unclassified and a candidate aged just over 30 is a case
C8_Witness ==
    \E k \in Done : \E p1, p3 \in results[k].universe :
        /\ phenos[k].case_min_age = Some(30)
        /\ phenos[k].case_max_age = Some(40)
        /\ RawCandidate(k, p1) /\ HasDob(p1) /\ FirstDays(k, p1) = Day.age20
        /\ p1 \notin results[k].cases \cup results[k].controls
        /\ RawCandidate(k, p3) /\ HasDob(p3) /\ FirstDays(k, p3) = Day.age30
        /\ p3 \in results[k].cases

\* the JSON objects of the input, blank lines left out: object k is the one
\* phenos[k] was read from
NotBlank(line) == ~line.blank
Objects == SelectSeq(jsonl, NotBlank)

\* the concept ids the icd2omop table maps the ICD codes to
IcdConcepts(codes) ==
    {m.omop_concept_id : m \in {x \in store.icd2omop : x.icd_code \in codes}}

\* C9: for a definition with an empty case.cond and ICD codes in
\* case.cond.icd, a universe member with a dated condition event matching the
\* mapped concepts (or a descendant), whose first qualifying event lies in the
\* age window and whom no case exclusion removes, is a case with cell 1
C9_IcdCodesMakeCases ==
    \A k \in Done :
        LET icd == Get(Objects[k].data, "case.cond.icd", {})
        IN Get(Objects[k].data, "case.cond", {}) = {} /\ icd # {} =>
            \A p \in results[k].universe :
                LET days == MatchingDays("condition", IcdConcepts(icd), p)
                                \cup CaseDays(k, p)
                IN /\ MatchingDays("condition", IcdConcepts(icd), p) # {}
                   /\ HasDob(p)
                   /\ InsideWindow(k, Min(days) - Val(store.demographics[p].dob))
                   /\ ~CaseExcluded(k, p)
                   => /\ p \in results[k].cases
                      /\ Holds(k) =>
                            \A i \in RowsOf(p) :
                                df.cell[phenos[k].phenotype_id][i] = Some(1)

\* a concept list holds an id that is no non-negative integer
InvalidConceptIds(obj) ==
    \E key \in {"universe.cond", "universe.proc", "universe.excl.cond",
                "universe.excl.proc", "case.cond", "case.proc", "case.excl.cond",
                "case.excl.proc", "ctrl.excl.cond", "ctrl.excl.proc"} :
        \E c \in Get(obj, key, {}) : c < 0

\* both ages are given and min_age > max_age
InvertedWindow(obj) ==
    /\ Get(obj, "case.min.age", NULL) # NULL
    /\ Get(obj, "case.max.age", NULL) # NULL
    /\ Val(obj["case.min.age"]) > Val(obj["case.max.age"])

DefinitionError(obj) ==
    \/ "phenotype_id" \notin DOMAIN obj
    \/ "phenotype_name" \notin DOMAIN obj
    \/ InvalidConceptIds(obj)
    \/ InvertedWindow(obj)

\* C10: a definition error in any definition of the input fails the run
\* before the store is opened: no connection, no base population, no
\* definition classified, no output written
C10_DefinitionErrorsFailUpFront ==
    (\E i \in DOMAIN Objects : DefinitionError(Objects[i].data)) =>
        /\ con = "none"
        /\ base_universe = {}
        /\ results = <<>>
        /\ matrix_file = NULL
        /\ counts_file = NULL

\* the run has left main() with the store error
Failed == pc = "StoreError"

\* C11: once a store access has failed, in the base population or in any
\* definition, the next step closes the connection and leaves main with the
\* error, nothing else changing and nothing following; no file is written
\* then, and a file is only ever written with every definition derived and
\* the connection closed
C11_StoreErrorWritesNothing ==
    /\ [](pc \in {"raised", "StoreError"} =>
            matrix_file = NULL /\ counts_file = NULL)
    /\ [](Failed => con = "closed")
    /\ [](matrix_file # NULL \/ counts_file # NULL =>
            /\ Len(results) = Len(phenos)
            /\ idx = Len(phenos)
            /\ con = "closed"
            /\ pc \in {"write_counts", "done"})
    /\ [][pc = "raised" =>
            /\ pc' = "StoreError"
            /\ con' = "closed"
            /\ UNCHANGED <<base_universe, df, counts_rows, idx, results,
                           matrix_file, counts_file>>]_vars
    /\ [][~Failed]_vars

\* the run has failed in the middle definition of three, after the first has
\* its column and its counts rows: the connection is closed, no file exists
C11_Witness ==
    /\ Failed
    /\ con = "closed"
    /\ Len(phenos) = 3
    /\ idx = 1
    /\ Len(df.columns) = 2
    /\ counts_rows # <<>>
    /\ matrix_file = NULL
    /\ counts_file = NULL

\* the cell holds no item: it is missing or its text has spaces and commas only
NoItems(cell) == IsNull(cell) \/ \A i \in DOMAIN Val(cell) : Val(cell)[i] \in {" ", ","}

\* row j of the sheet is a definition row without case-inclusion condition
LacksCaseCondition(j) ==
    /\ ~IsBlankRow(sheet.rows[j])
    /\ NoItems(Get(sheet.rows[j], "case.cond", NULL))
    /\ NoItems(Get(sheet.rows[j], "case.cond.icd", NULL))

\* C12: xls2json never passes a non-blank row whose case.cond and
\* case.cond.icd are both empty: it ends in ValueError at that row, and every
\* record of the output file has a non-empty case.cond or case.cond.icd
C12_RowWithoutCaseConditionRejected ==
    /\ [](\A j \in DOMAIN sheet.rows :
            LacksCaseCondition(j) => row_i < j /\ xpc # "done")
    /\ [][xpc = "rows" /\ row_i < Len(sheet.rows) /\ LacksCaseCondition(row_i + 1)
            => xpc' = "ValueError" /\ handle' = handle]_vars
    /\ [](~IsNull(handle) =>
            \A n \in DOMAIN Val(handle) :
                Val(handle)[n]["case.cond"] # <<>> \/ Val(handle)[n]["case.cond.icd"] # <<>>)

\* the second row has an id and a name, and spaces and a comma for its case
\* condition: the run has ended in ValueError there, after one record
C12_Witness ==
    /\ xpc = "ValueError"
    /\ row_i = 1
    /\ Len(sheet.rows) = 2
    /\ ~IsNull(handle) /\ Len(Val(handle)) = 1
    /\ LacksCaseCondition(2)
    /\ ~IsNull(NormalizeCell(sheet.rows[2]["phenotype_id"]))
    /\ ~IsNull(NormalizeCell(sheet.rows[2]["phenotype_name"]))
    /\ ~IsNull(sheet.rows[2]["case.cond.icd"])

\* p has a qualifying occurrence of a kind for a concept list: a dated event
\* whose concept is listed or is a descendant of a listed concept
Qualifies(kind, ids, p) == MatchingDays(kind, ids, p) # {}

\* the definition the loop has just classified: every definition processed is
\* the fresh one in the state its iteration ends in, and its entry of results
\* is never written again
Fresh == IF pc = "loop" /\ results # <<>> THEN {Len(results)} ELSE {}

\* p passes the universe lists of definition k
PassesUniverseLists(k, p) ==
    /\ phenos[k].universe_cond # {} => Qualifies("condition", phenos[k].universe_cond, p)
    /\ phenos[k].universe_proc # {} => Qualifies("procedure", phenos[k].universe_proc, p)
    /\ ~Qualifies("condition", phenos[k].universe_excl_cond, p)
    /\ ~Qualifies("procedure", phenos[k].universe_excl_proc, p)

\* C13: the refined universe of every definition classified is exactly the base
\* population restricted to the persons with a qualifying occurrence of each
\* non-empty inclusion list, minus the persons with a qualifying occurrence of
\* either exclusion list; with all four lists empty it is the base population
C13_UniverseFiltersExact ==
    \A k \in Fresh :
        /\ results[k].universe = {p \in base_universe : PassesUniverseLists(k, p)}
        /\ (/\ phenos[k].universe_cond = {} /\ phenos[k].universe_proc = {}
            /\ phenos[k].universe_excl_cond = {} /\ phenos[k].universe_excl_proc = {})
               => results[k].universe = base_universe

\* a definition with the four lists non-empty and a non-empty universe: one
\* person passes one inclusion list only, one passes both and is excluded
C13_Witness ==
    \E k \in Done : \E p, q \in base_universe :
        /\ phenos[k].universe_cond # {} /\ phenos[k].universe_proc # {}
        /\ phenos[k].universe_excl_cond # {} /\ phenos[k].universe_excl_proc # {}
        /\ results[k].universe # {}
        /\ Qualifies("condition", phenos[k].universe_cond, p)
        /\ ~Qualifies("procedure", phenos[k].universe_proc, p)
        /\ p \notin results[k].universe
        /\ Qualifies("condition", phenos[k].universe_cond, q)
        /\ Qualifies("procedure", phenos[k].universe_proc, q)
        /\ \/ Qualifies("condition", phenos[k].universe_excl_cond, q)
           \/ Qualifies("procedure", phenos[k].universe_excl_proc, q)
        /\ q \notin results[k].universe

\* the persons of the event tables
EventPersons ==
    {e.person_id : e \in store.condition_occurrence \cup store.procedure_occurrence}

\* p has a recorded date of birth
BornKnown(p) == p \in DOMAIN store.demographics /\ store.demographics[p].dob # NULL

\* the age-filtered set of definition k, as _get_case_control derives it from
\* the two occurrence summaries
AgeFiltered(k) ==
    CasesAge(Occurrence(store, "condition", phenos[k].case_cond)
                 \cup Occurrence(store, "procedure", phenos[k].case_proc),
             phenos[k])

\* C14: the age filter keeps exactly the raw case candidates with a date of
\* birth whose age at the earliest qualifying event, condition or procedure,
\* lies in [min_age, max_age], bounds included, 0 and +infinity when absent;
\* a candidate without date of birth is never kept and never a case
C14_AgeFilterUsesEarliestEvent ==
    \A k \in Fresh :
        LET kept == AgeFiltered(k)
        IN /\ kept = {p \in EventPersons :
                        /\ RawCandidate(k, p)
                        /\ BornKnown(p)
                        /\ InsideWindow(k, FirstDays(k, p))}
           /\ results[k].cases \subseteq kept
           /\ \A p \in EventPersons :
                 RawCandidate(k, p) /\ ~BornKnown(p) =>
                     p \notin kept /\ p \notin results[k].cases

\* a definition without age window: a candidate of the universe without date
\* of birth is not kept, and a candidate whose first condition and first
\* procedure lie at different ages is kept; and a definition with the window
\* [30, 40]: a candidate with a condition at 30 and a procedure at 20 is not
\* kept, one aged just over 30 at the first event is
C14_Witness ==
    /\ \E k \in Done : \E p, q \in results[k].universe :
          /\ phenos[k].case_min_age = NULL /\ phenos[k].case_max_age = NULL
          /\ RawCandidate(k, p) /\ ~BornKnown(p) /\ p \notin AgeFiltered(k)
          /\ MatchingDays("condition", phenos[k].case_cond, q) # {}
          /\ MatchingDays("procedure", phenos[k].case_proc, q) # {}
          /\ Min(MatchingDays("condition", phenos[k].case_cond, q))
                # Min(MatchingDays("procedure", phenos[k].case_proc, q))
          /\ q \in AgeFiltered(k)
    /\ \E k \in Done : \E p, q \in results[k].universe :
          /\ phenos[k].case_min_age = Some(30) /\ phenos[k].case_max_age = Some(40)
          /\ MatchingDays("condition", phenos[k].case_cond, p) = {Day.age30}
          /\ MatchingDays("procedure", phenos[k].case_proc, p) = {Day.age20}
          /\ BornKnown(p) /\ p \notin AgeFiltered(k)
          /\ RawCandidate(k, q) /\ BornKnown(q) /\ FirstDays(k, q) = Day.age30
          /\ q \in AgeFiltered(k)

\* p has a qualifying control-exclusion occurrence for definition k
CtrlExcluded(k, p) ==
    \/ Qualifies("condition", phenos[k].ctrl_excl_cond, p)
    \/ Qualifies("procedure", phenos[k].ctrl_excl_proc, p)

\* pairs of concept lists to put in the place of a pair of exclusion lists
OtherLists == {<<{}, {}>>, <<{2}, {1}>>, <<{1, 2, 3, 4}, {1, 2}>>}

\* C15: final cases are the age-qualified candidates of the universe without
\* a qualifying case-exclusion occurrence, final controls the non-candidates
\* of the universe without a qualifying control-exclusion occurrence; other
\* control-exclusion lists give the same cases, other case-exclusion lists the
\* same controls
C15_ExclusionsActOnOwnSet ==
    \A k \in Fresh :
        /\ results[k].cases =
              {p \in results[k].universe \cap AgeFiltered(k) : ~CaseExcluded(k, p)}
        /\ results[k].controls =
              {p \in results[k].universe : ~RawCandidate(k, p) /\ ~CtrlExcluded(k, p)}
        /\ \A o \in OtherLists :
              /\ GetCaseControl(store, results[k].universe,
                     [phenos[k] EXCEPT !.ctrl_excl_cond = o[1], !.ctrl_excl_proc = o[2]])[1]
                   = results[k].cases
              /\ GetCaseControl(store, results[k].universe,
                     [phenos[k] EXCEPT !.case_excl_cond = o[1], !.case_excl_proc = o[2]])[2]
                   = results[k].controls

\* a definition with case and control exclusions: a case that has a
\* control-exclusion occurrence, a control that has a case-exclusion
\* occurrence, and a non-candidate the control exclusion removes
C15_Witness ==
    \E k \in Done :
        /\ \E p \in results[k].cases : CtrlExcluded(k, p)
        /\ \E q \in results[k].controls : CaseExcluded(k, q)
        /\ \E t \in results[k].universe :
              ~RawCandidate(k, t) /\ CtrlExcluded(k, t) /\ t \notin results[k].controls

\* the concept lists of definition k, each with the kind it is expanded in
ListsOf(k) ==
    {<<"condition", phenos[k].universe_cond>>, <<"procedure", phenos[k].universe_proc>>,
     <<"condition", phenos[k].universe_excl_cond>>,
     <<"procedure", phenos[k].universe_excl_proc>>,
     <<"condition", phenos[k].case_cond>>, <<"procedure", phenos[k].case_proc>>,
     <<"condition", phenos[k].case_excl_cond>>, <<"procedure", phenos[k].case_excl_proc>>,
     <<"condition", phenos[k].ctrl_excl_cond>>, <<"procedure", phenos[k].ctrl_excl_proc>>}

\* the closure rows and the events of a kind
ClosureOf(kind) ==
    IF kind = "condition" THEN store.condition_descendants
    ELSE store.procedure_descendants

EventsOf(kind) ==
    IF kind = "condition" THEN store.condition_occurrence
    ELSE store.procedure_occurrence

\* the closure table of the kind has no row for root
IsLeaf(kind, root) == \A row \in ClosureOf(kind) : row[1] # root

\* C16: for every concept list a classified definition is expanded with, the
\* expansion is the roots united with the descendants recorded for any root;
\* the empty list expands to the empty set and selects no event; a list of
\* roots absent from the closure table expands to itself, and a dated event
\* whose concept is a listed root puts its person in the occurrence summary
C16_ExpansionIsRootsAndDescendants ==
    \A k \in Fresh : \A l \in ListsOf(k) :
        LET kind    == l[1]
            roots   == l[2]
            keys    == OccurrenceKeys(store, kind, roots)
            summary == Occurrence(store, kind, roots)
            present == PersonIds(summary)
        IN /\ keys = roots \cup {row[2] : row \in {x \in ClosureOf(kind) : x[1] \in roots}}
           /\ roots = {} => keys = {} /\ summary = {}
           /\ (\A r \in roots : IsLeaf(kind, r)) => keys = roots
           /\ \A e \in EventsOf(kind) :
                 e.concept_id \in roots /\ e.date # NULL => e.person_id \in present

\* one definition with an empty list, a list whose root is absent from the
\* closure table and is the concept of a dated event, and a list whose
\* expansion adds a descendant that is no root
C16_Witness ==
    \E k \in Done :
        /\ \E l \in ListsOf(k) : l[2] = {}
        /\ \E l \in ListsOf(k) : \E r \in l[2] : \E e \in EventsOf(l[1]) :
              /\ IsLeaf(l[1], r)
              /\ e.concept_id = r /\ e.date # NULL
              /\ e.person_id \in PersonIds(Occurrence(store, l[1], l[2]))
        /\ \E l \in ListsOf(k) : OccurrenceKeys(store, l[1], l[2]) \ l[2] # {}

\* the persons with an event of the kind whose concept is a root or a
\* descendant recorded for a root
PersonsWithEvent(kind, roots) ==
    {e.person_id : e \in {x \in EventsOf(kind) :
        \/ x.concept_id \in roots
        \/ \E r \in roots : <<r, x.concept_id>> \in ClosureOf(kind)}}

\* C17: for every concept list a processed definition is expanded with, the
\* occurrence summary holds exactly the persons with at least one event of the
\* kind whose concept is in the expanded set, with or without a date of birth,
\* and the summary of an empty list is empty
C17_SummaryHoldsEveryPersonWithEvent ==
    \A k \in Done : \A l \in ListsOf(k) :
        IF l[2] = {} THEN Occurrence(store, l[1], l[2]) = {}
        ELSE PersonIds(Occurrence(store, l[1], l[2])) = PersonsWithEvent(l[1], l[2])

\* definition d processed alone, on a run of its own over the same store: its
\* universe, its cases and controls, its matrix column and its counts rows
AloneUniverse(d) ==
    ApplyUniverseFilters(store, Universe(store), d.universe_cond, d.universe_proc,
                         d.universe_excl_cond, d.universe_excl_proc)

AloneCohort(d) == GetCaseControl(store, AloneUniverse(d), d)

AloneColumn(d) ==
    AddPhenoColumn(PersonFrame(Universe(store)), AloneCohort(d)[1], AloneCohort(d)[2],
                   d.phenotype_id).cell[d.phenotype_id]

AloneBlock(d) ==
    CountsBlock(AncestryFrame(store, Universe(store)), AloneCohort(d)[1],
                AloneCohort(d)[2], d.phenotype_id)

\* the step processes a definition d and leaves the store and the base
\* population alone; d's cases and controls, its matrix column and the counts
\* rows it adds are those of d processed alone; the counts rows written before
\* are left unchanged
ProcessedAsAlone ==
    LET d == phenos[idx + 1]
    IN /\ store' = store
       /\ base_universe' = base_universe
       /\ Len(results') = idx + 1
       /\ results'[idx + 1].universe = AloneUniverse(d)
       /\ <<results'[idx + 1].cases, results'[idx + 1].controls>> = AloneCohort(d)
       /\ df'.nrows = df.nrows
       /\ df'.cell["person_id"] = df.cell["person_id"]
       /\ df'.cell[d.phenotype_id] = AloneColumn(d)
       /\ Len(counts_rows') >= Len(counts_rows)
       /\ SubSeq(counts_rows', 1, Len(counts_rows)) = counts_rows
       /\ SubSeq(counts_rows', Len(counts_rows) + 1, Len(counts_rows')) = AloneBlock(d)

====
